---- MODULE Spec2Model ----
(***************************************************************************)
(* SultanAnalysisEngine: semantic search over an in-memory verse index.    *)
(* Embeddings come from a remote provider and are memoized per process;    *)
(* ranking is cosine similarity; a keyword search is the fallback.         *)
(*                                                                         *)
(* Strings are sequences of one-character strings, vectors are sequences   *)
(* of integers, and a number (a score) is an exact fraction <<n, d>> in    *)
(* lowest terms with d > 0.  The vectors the provider serves here have     *)
(* integral norms, so that the square roots of cosineSimilarity are exact. *)
(***************************************************************************)
EXTENDS Integers, Sequences, FiniteSets, TLC

(***************************************************************************)
(* Bounds of the model.                                                    *)
(***************************************************************************)
\* number of semanticSearch / getContextForQuery invocations, which overlap
MaxCalls == 2
\* number of surahs of a dataset the index is built from
MaxSurahs == 2
\* the surah numbers of such a dataset are in 1..MaxSurahNumber
MaxSurahNumber == 2
\* topK is -1 or in 1..MaxTopK
MaxTopK == 2
\* the pool limit of the model (the program's is 80)
PoolBound == 2
\* the cache-key prefix length of the model (the program's is 200)
KeyBound == 2

MAX_VERSES_TO_EMBED == PoolBound

CacheKeyLen == KeyBound

(***************************************************************************)
(* Numbers: exact fractions.                                               *)
(***************************************************************************)
Abs(x) == IF x < 0 THEN 0 - x ELSE x

Min(x, y) == IF x < y THEN x ELSE y

Max(x, y) == IF x < y THEN y ELSE x

RECURSIVE Gcd(_, _)
Gcd(x, y) == IF y = 0 THEN x ELSE Gcd(y, x % y)

\* the fraction n/d (d # 0) in lowest terms
Frac(n, d) ==
  LET g == Gcd(Abs(n), Abs(d))
      s == IF d < 0 THEN 0 - 1 ELSE 1
  IN  << (s * n) \div g, (s * d) \div g >>

Zero == << 0, 1 >>

\* the sign of x - y
CmpNum(x, y) ==
  LET l == x[1] * y[2]
      r == y[1] * x[2]
  IN  IF l < r THEN 0 - 1 ELSE IF l > r THEN 1 ELSE 0

\* Math.sqrt on the perfect squares
Sqrt(n) == CHOOSE r \in 0..n : r * r = n

(***************************************************************************)
(* Strings and arrays.                                                     *)
(***************************************************************************)
Whitespace == { " " }

toLowerCaseChar(ch) ==
  IF ch = "A" THEN "a" ELSE IF ch = "B" THEN "b" ELSE ch

toLowerCase(s) == [ i \in 1..Len(s) |-> toLowerCaseChar(s[i]) ]

RECURSIVE trimStart(_)
trimStart(s) ==
  IF s # << >> /\ Head(s) \in Whitespace THEN trimStart(Tail(s)) ELSE s

RECURSIVE trimEnd(_)
trimEnd(s) ==
  IF s # << >> /\ s[Len(s)] \in Whitespace
    THEN trimEnd(SubSeq(s, 1, Len(s) - 1))
    ELSE s

\* a trim that strips nothing
trim_none(s) == s

trim(s) == trimEnd(trimStart(s))

\* String.prototype.includes
includes(s, q) ==
  \E i \in 0..(Len(s) - Len(q)) : SubSeq(s, i + 1, i + Len(q)) = q

\* slice(begin, end) of strings and arrays: a negative index counts from the
\* end, and both are clamped to the length
sliceIndex(x, n) == IF x < 0 THEN Max(n + x, 0) ELSE Min(x, n)

slice(s, begin, end) ==
  SubSeq(s, sliceIndex(begin, Len(s)) + 1, sliceIndex(end, Len(s)))

\* the decimal digits of a natural number, as `${n}` prints it
RECURSIVE toString(_)
toString(n) ==
  LET digit == << "0", "1", "2", "3", "4", "5", "6", "7", "8", "9" >>
  IN  IF n < 10 THEN << digit[n + 1] >>
      ELSE toString(n \div 10) \o << digit[(n % 10) + 1] >>

(***************************************************************************)
(* The corpus index.                                                       *)
(***************************************************************************)
\* the imported dataset: surahs with a number, a name and optional content
QURANIC_DATA ==
  << [ number |-> 1, name |-> "A",
       content |-> << << "a", "b" >>, << "b", "a" >> >> ],
     [ number |-> 2, name |-> "B" ],
     [ number |-> 3, name |-> "C",
       content |-> << << "A", "b", "b" >>, << "a", "a" >> >> ] >>

\* the verses one surah contributes: content.forEach((text, idx) => push)
surahVerses(surah) ==
  LET content == IF "content" \in DOMAIN surah THEN surah.content ELSE << >>
  IN  [ n \in 1..Len(content) |->
          [ ayahId |-> toString(surah.number) \o << ":" >> \o toString(n),
            surahNumber |-> surah.number,
            surahName |-> surah.name,
            ayahNumber |-> n,
            text |-> content[n] ] ]

\* for (const surah of surahs) ...
RECURSIVE buildVerses(_)
buildVerses(surahs) ==
  IF surahs = << >> THEN << >>
  ELSE surahVerses(Head(surahs)) \o buildVerses(Tail(surahs))

(***************************************************************************)
(* The embedding client.                                                   *)
(***************************************************************************)
\* the vectors the provider may serve: a unit vector, the zero vector of
\* the same dimension, and a vector of another dimension
Vectors == { << 1, 0 >>, << 0, 0 >>, << 1 >> }

\* what one request to the provider may come to
Responses ==
  [ kind : { "ok" }, vec : Vectors ]
    \cup { [ kind |-> "status" ],     \* non-success HTTP status
           [ kind |-> "novec" ],      \* success body without embeddings[0]
           [ kind |-> "transport" ],  \* fetch rejects
           [ kind |-> "parse" ] }     \* res.json() rejects

cacheKey(text) == slice(text, 0, CacheKeyLen)

\* a lookup by the whole text: embeddingCache.get(text)
cacheHit_byText(cache, text) == text \in DOMAIN cache

\* an embed that never finds its key
cacheHit_never(cache, text) == FALSE

\* const cached = embeddingCache.get(cacheKey); if (cached) ...
cacheHit(cache, text) == cacheKey(text) \in DOMAIN cache

\* an embed that takes a vector whose first component is 0 for a missing
\* vector
embedSettle_zeroIsMissing(resp) ==
  IF resp.kind = "ok" /\ resp.vec[1] # 0
    THEN [ ok |-> TRUE, vec |-> resp.vec ]
    ELSE [ ok |-> FALSE ]

\* an embed without the check for a missing vector, which takes the missing
\* embeddings[0] of a success body for a vector
embedSettle_noVecCheck(resp) ==
  IF resp.kind \in { "ok", "novec" }
    THEN [ ok |-> TRUE, vec |-> IF resp.kind = "ok" THEN resp.vec ELSE << >> ]
    ELSE [ ok |-> FALSE ]

\* an embed without the res.ok check, which takes the body of an error
\* response for a vector
embedSettle_noStatusCheck(resp) ==
  IF resp.kind \in { "ok", "status" }
    THEN [ ok |-> TRUE, vec |-> IF resp.kind = "ok" THEN resp.vec ELSE << 0, 0 >> ]
    ELSE [ ok |-> FALSE ]

\* the rest of embed, once the provider has answered: the value the promise
\* settles with
embedSettle(resp) ==
  IF resp.kind = "ok"
    THEN [ ok |-> TRUE, vec |-> resp.vec ]
    ELSE [ ok |-> FALSE ]

\* a cache keyed by the whole text: embeddingCache.set(text, vec)
cacheSet_keyedByText(cache, text, vec) ==
  [ k \in DOMAIN cache \cup { text } |-> IF k = text THEN vec ELSE cache[k] ]

\* a cache that keeps the latest entry only
cacheSet_latestOnly(cache, text, vec) ==
  [ k \in { cacheKey(text) } |-> vec ]

\* embeddingCache.set(cacheKey, vec)
cacheSet(cache, text, vec) ==
  [ k \in DOMAIN cache \cup { cacheKey(text) } |->
      IF k = cacheKey(text) THEN vec ELSE cache[k] ]

(***************************************************************************)
(* The similarity scorer.                                                  *)
(***************************************************************************)
RECURSIVE sumTo(_, _)
sumTo(f, n) == IF n = 0 THEN 0 ELSE sumTo(f, n - 1) + f[n]

\* a scorer without the length check, which runs over the common prefix
cosineSimilarity_overCommonPrefix(a, b) ==
  LET n == Min(Len(a), Len(b))
      dot == sumTo([ i \in 1..n |-> a[i] * b[i] ], n)
      normA == sumTo([ i \in 1..Len(a) |-> a[i] * a[i] ], Len(a))
      normB == sumTo([ i \in 1..Len(b) |-> b[i] * b[i] ], Len(b))
      denom == Sqrt(normA) * Sqrt(normB)
  IN  IF denom = 0 THEN Zero ELSE Frac(dot, denom)

cosineSimilarity(a, b) ==
  IF Len(a) # Len(b) THEN Zero
  ELSE
    LET dot == sumTo([ i \in 1..Len(a) |-> a[i] * b[i] ], Len(a))
        normA == sumTo([ i \in 1..Len(a) |-> a[i] * a[i] ], Len(a))
        normB == sumTo([ i \in 1..Len(a) |-> b[i] * b[i] ], Len(a))
        denom == Sqrt(normA) * Sqrt(normB)
    IN  IF denom = 0 THEN Zero ELSE Frac(dot, denom)

(***************************************************************************)
(* The retrieval orchestrator: its pure parts.                             *)
(***************************************************************************)
\* verses.splice(0, MAX_VERSES_TO_EMBED) for verses.slice(...): the records
\* of the pool are taken out of the index
sliceReceiver_splice(vs) == slice(vs, MAX_VERSES_TO_EMBED, Len(vs))

\* what verses.slice(0, MAX_VERSES_TO_EMBED) leaves of the array it is called
\* on: slice copies, the array is as before
sliceReceiver(vs) == vs

\* a pool that is the whole corpus
searchPool_all(vs) == vs

\* const searchPool = verses.slice(0, MAX_VERSES_TO_EMBED)
searchPool(vs) == slice(vs, 0, MAX_VERSES_TO_EMBED)

\* the comparator the other way round
byScoreDesc_asc(a, b) == CmpNum(a.score, b.score)

\* the comparator (a, b) => b.score - a.score, as its sign
byScoreDesc(a, b) == CmpNum(b.score, a.score)

\* Array.prototype.sort is stable: an element goes behind those the
\* comparator puts in front of it and behind the earlier ones it ties with
sortedPosition(s, i) ==
  1 + Cardinality({ j \in 1..Len(s) :
                      \/ byScoreDesc(s[j], s[i]) < 0
                      \/ byScoreDesc(s[j], s[i]) = 0 /\ j < i })

sort(s) ==
  [ p \in 1..Len(s) |-> s[CHOOSE i \in 1..Len(s) : sortedPosition(s, i) = p] ]

\* scored.sort(...); return scored.slice(0, topK)
rank(entries, k) == slice(sort(entries), 0, k)

FallbackScore == Frac(9, 10)

\* a keyword search that scans the pool only
keywordSearch_pool(vs, q, k) ==
  LET lower == toLowerCase(q)
      match(v) == includes(v.text, q) \/ includes(toLowerCase(v.text), lower)
      hits == slice(SelectSeq(slice(vs, 0, MAX_VERSES_TO_EMBED), match), 0, k)
  IN  [ i \in 1..Len(hits) |-> [ verse |-> hits[i], score |-> Frac(9, 10) ] ]

\* the catch block: verses.filter(...).slice(0, topK).map(...)
keywordSearch(vs, q, k) ==
  LET lower == toLowerCase(q)
      match(v) == includes(v.text, q) \/ includes(toLowerCase(v.text), lower)
      hits == slice(SelectSeq(vs, match), 0, k)
  IN  [ i \in 1..Len(hits) |-> [ verse |-> hits[i], score |-> FallbackScore ] ]

\* a projection that turns the order round
projectVerses_reversed(results) ==
  [ i \in 1..Len(results) |-> results[Len(results) + 1 - i].verse ]

\* results.map((r) => r.verse)
projectVerses(results) == [ i \in 1..Len(results) |-> results[i].verse ]

\* how a call of semanticSearch ends
returnEmpty == [ path |-> "NONE", outcome |-> "returned", result |-> << >> ]

returnRanked(entries, k) ==
  [ path |-> "SEMANTIC", outcome |-> "returned", result |-> rank(entries, k) ]

\* a catch block that throws the error on
catchFallback_rethrow(vs, q, k) ==
  [ path |-> "FALLBACK", outcome |-> "threw", result |-> << >> ]

catchFallback(vs, q, k) ==
  [ path |-> "FALLBACK", outcome |-> "returned",
    result |-> keywordSearch(vs, q, k) ]

\* the promises of the fan-out, one per pool record
Pending == [ st |-> "pending" ]

Rejected == [ st |-> "rejected" ]

Fulfilled(v) == [ st |-> "fulfilled", value |-> v ]

\* results collected in the order in which they arrive
settleSlot_byArrival(slots, i, p) ==
  LET j == CHOOSE j \in DOMAIN slots :
             /\ slots[j].st = "pending"
             /\ \A k \in DOMAIN slots : k < j => slots[k].st # "pending"
  IN  [ slots EXCEPT ![j] = p ]

\* a promise of the fan-out settles: the array keeps the order of the pool
settleSlot(slots, i, p) == [ slots EXCEPT ![i] = p ]

\* a Promise.all that a rejection does not settle
promiseAll_noReject(slots) ==
  IF \A i \in DOMAIN slots : slots[i].st = "fulfilled" THEN "fulfilled"
  ELSE "pending"

\* Promise.all: rejected with the first rejection, fulfilled once all are
promiseAll(slots) ==
  IF \E i \in DOMAIN slots : slots[i].st = "rejected" THEN "rejected"
  ELSE IF \A i \in DOMAIN slots : slots[i].st = "fulfilled" THEN "fulfilled"
  ELSE "pending"

promiseValues(slots) == [ i \in DOMAIN slots |-> slots[i].value ]

\* async (v) => ({ verse: v, score: cosineSimilarity(queryEmbedding, vec) })
scoreVerse(v, queryEmbedding, vec) ==
  [ verse |-> v, score |-> cosineSimilarity(queryEmbedding, vec) ]

(***************************************************************************)
(* The state.                                                              *)
(***************************************************************************)
Calls == 1..MaxCalls

Queries ==
  { << >>, << " " >>, << "B", " " >>, << "a", "b", "B", " " >> }

TopKs == { 0 - 1 } \cup 1..MaxTopK

\* the outcome of a call that has not ended
None == "none"

\* a parameter, local or return value of a call that is not there (yet): the
\* variables hold the empty sequence for it, and 0 for topK
Unset == << >>

VARIABLES
  surahs,          \* the imported dataset
  surahIdx,        \* how many surahs the loop that builds the index has read
  verses,          \* the corpus index
  embeddingCache,  \* cache key -> vector
  pc,              \* per call: idle, awaitQuery, fanout, awaitPool, done
  query,           \* per call: the query argument
  topK,            \* per call: the topK (maxVerses) argument
  path,            \* per call: NONE, SEMANTIC (in the try), FALLBACK (catch)
  queryEmbedding,  \* per call: the query's vector
  scored,          \* per call: the promises given to Promise.all
  outcome,         \* per call: none, returned, threw
  result,          \* per call: what semanticSearch returned
  context,         \* per call: what getContextForQuery returns to its caller
  inflight,        \* requests the provider has not answered
  issued,          \* history: every request ever sent
  vec,             \* per call: the vector embed gave the closure of a slot
  httpFailed,      \* history: per call, a request met a non-success status
  providerFailed,  \* history: per call, a request was not answered by a vector
  stored           \* history: the requests answered by a vector, with it

vars ==
  << surahs, surahIdx, verses, embeddingCache, pc, query, topK, path, queryEmbedding,
     scored, outcome, result, context, inflight, issued, vec,
     httpFailed, providerFailed, stored >>

Init ==
  /\ surahs = QURANIC_DATA
  /\ surahIdx = Len(QURANIC_DATA)
  /\ verses = buildVerses(QURANIC_DATA)
  /\ embeddingCache = << >>
  /\ pc = [ c \in Calls |-> "idle" ]
  /\ query = [ c \in Calls |-> Unset ]
  /\ topK = [ c \in Calls |-> 0 ]
  /\ path = [ c \in Calls |-> "NONE" ]
  /\ queryEmbedding = [ c \in Calls |-> Unset ]
  /\ scored = [ c \in Calls |-> << >> ]
  /\ outcome = [ c \in Calls |-> None ]
  /\ result = [ c \in Calls |-> Unset ]
  /\ context = [ c \in Calls |-> Unset ]
  /\ inflight = { }
  /\ issued = { }
  /\ vec = [ c \in Calls |-> << >> ]
  /\ httpFailed = [ c \in Calls |-> FALSE ]
  /\ providerFailed = [ c \in Calls |-> FALSE ]
  /\ stored = { }

\* the request embed sends for a text that is not cached
Request(c, slot, text) == [ call |-> c, slot |-> slot, text |-> text ]

\* semanticSearch returns (or throws) and getContextForQuery, when it made
\* the call, maps the results it awaited
Finish(c, fin) ==
  /\ pc' = [ pc EXCEPT ![c] = "done" ]
  /\ path' = [ path EXCEPT ![c] = fin.path ]
  /\ outcome' = [ outcome EXCEPT ![c] = fin.outcome ]
  /\ result' = [ result EXCEPT ![c] = fin.result ]
  /\ context' =
       [ context EXCEPT ![c] =
           IF fin.outcome = "returned"
             THEN projectVerses(fin.result)
             ELSE Unset ]

(***************************************************************************)
(* The steps of a call.  A step is what runs between two suspensions.      *)
(***************************************************************************)
\* semanticSearch(query, topK), called directly or by
\* getContextForQuery(query, maxVerses), which only maps what it returns:
\* up to the first await.  Calls are numbered as they are made.
Call(c, qy, k) ==
  /\ pc[c] = "idle"
  /\ \A d \in Calls : d < c => pc[d] # "idle"
  /\ query' = [ query EXCEPT ![c] = qy ]
  /\ topK' = [ topK EXCEPT ![c] = k ]
  /\ LET q == trim(qy)
     IN  IF q = << >>
           THEN /\ Finish(c, returnEmpty)
                /\ UNCHANGED << verses, queryEmbedding, inflight, issued >>
         ELSE IF cacheHit(embeddingCache, q)
           THEN /\ verses' = sliceReceiver(verses)
                /\ queryEmbedding' =
                     [ queryEmbedding EXCEPT
                         ![c] = embeddingCache[cacheKey(q)] ]
                /\ pc' = [ pc EXCEPT ![c] = "fanout" ]
                /\ path' = [ path EXCEPT ![c] = "SEMANTIC" ]
                /\ UNCHANGED << inflight, issued, outcome, result, context >>
         ELSE /\ verses' = sliceReceiver(verses)
              /\ inflight' = inflight \cup { Request(c, 0, q) }
              /\ issued' = issued \cup { Request(c, 0, q) }
              /\ pc' = [ pc EXCEPT ![c] = "awaitQuery" ]
              /\ path' = [ path EXCEPT ![c] = "SEMANTIC" ]
              /\ UNCHANGED << queryEmbedding, outcome, result, context >>
  /\ UNCHANGED << surahs, surahIdx, embeddingCache, scored, vec,
                  httpFailed, providerFailed, stored >>

\* the provider answers the request for the query: the rest of embed, then
\* semanticSearch goes on to the fan-out or to the catch block
QueryResponse(r, resp) ==
  LET c == r.call
      e == embedSettle(resp)
  IN  /\ r \in inflight
      /\ r.slot = 0
      /\ inflight' = inflight \ { r }
      /\ httpFailed' =
           [ httpFailed EXCEPT ![c] = @ \/ resp.kind = "status" ]
      /\ providerFailed' =
           [ providerFailed EXCEPT ![c] = @ \/ resp.kind # "ok" ]
      /\ stored' =
           IF resp.kind = "ok"
             THEN stored \cup { [ req |-> r, vec |-> resp.vec ] }
             ELSE stored
      /\ IF e.ok
           THEN /\ embeddingCache' = cacheSet(embeddingCache, r.text, e.vec)
                /\ queryEmbedding' = [ queryEmbedding EXCEPT ![c] = e.vec ]
                /\ pc' = [ pc EXCEPT ![c] = "fanout" ]
                /\ UNCHANGED << path, outcome, result, context >>
           ELSE /\ \E fin \in { catchFallback(verses, trim(query[c]), topK[c]) } :
                     Finish(c, fin)
                /\ UNCHANGED << embeddingCache, queryEmbedding >>
      /\ UNCHANGED << surahs, surahIdx, verses, query, topK, scored, issued, vec >>

\* after the query's vector: searchPool.map(async (v) => ...) runs every
\* closure up to its await, and Promise.all waits for what was not cached.
\* (\E x \in { e } names the value of e.)
Fanout(c) ==
  /\ pc[c] = "fanout"
  /\ LET pool == searchPool(verses)
         hit(i) == cacheHit(embeddingCache, pool[i].text)
         vecOf(i) == embeddingCache[cacheKey(pool[i].text)]
         sent ==
           { Request(c, i, pool[i].text) : i \in { j \in 1..Len(pool) : ~hit(j) } }
     IN  \E slots \in
           { [ i \in 1..Len(pool) |->
                 IF hit(i)
                   THEN Fulfilled(scoreVerse(pool[i], queryEmbedding[c], vecOf(i)))
                   ELSE Pending ] } :
         /\ scored' = [ scored EXCEPT ![c] = slots ]
         /\ vec' =
              [ vec EXCEPT
                  ![c] = [ i \in { j \in 1..Len(pool) : hit(j) } |-> vecOf(i) ] ]
         /\ inflight' = inflight \cup sent
         /\ issued' = issued \cup sent
         /\ IF promiseAll(slots) = "fulfilled"
              THEN \E fin \in { returnRanked(promiseValues(slots), topK[c]) } :
                     Finish(c, fin)
              ELSE /\ pc' = [ pc EXCEPT ![c] = "awaitPool" ]
                   /\ UNCHANGED << path, outcome, result, context >>
  /\ UNCHANGED << surahs, surahIdx, verses, embeddingCache, query, topK,
                  queryEmbedding, httpFailed, providerFailed, stored >>

\* the provider answers the request for a pool record: the rest of embed and
\* of the closure, then whatever Promise.all and semanticSearch do with it.
\* The request outlives a call that has already gone to the catch block.
PoolResponse(r, resp) ==
  LET c == r.call
      i == r.slot
      e == embedSettle(resp)
  IN  /\ r \in inflight
      /\ r.slot # 0
      /\ inflight' = inflight \ { r }
      /\ httpFailed' =
           [ httpFailed EXCEPT ![c] = @ \/ resp.kind = "status" ]
      /\ providerFailed' =
           [ providerFailed EXCEPT ![c] = @ \/ resp.kind # "ok" ]
      /\ stored' =
           IF resp.kind = "ok"
             THEN stored \cup { [ req |-> r, vec |-> resp.vec ] }
             ELSE stored
      /\ embeddingCache' =
           IF e.ok THEN cacheSet(embeddingCache, r.text, e.vec)
                   ELSE embeddingCache
      /\ IF pc[c] # "awaitPool"
           \* Promise.all was rejected before: the settlement has no effect
           THEN UNCHANGED << scored, vec, queryEmbedding, pc, path,
                             outcome, result, context >>
         ELSE \E slots \in
                { settleSlot(scored[c], i,
                    IF e.ok
                      THEN Fulfilled(scoreVerse(searchPool(verses)[i],
                                                queryEmbedding[c], e.vec))
                      ELSE Rejected) } :
              IF promiseAll(slots) = "rejected"
                \* the catch block: the locals of the try block are gone
                THEN /\ \E fin \in { catchFallback(verses, trim(query[c]),
                                                  topK[c]) } :
                          Finish(c, fin)
                     /\ scored' = [ scored EXCEPT ![c] = << >> ]
                     /\ vec' = [ vec EXCEPT ![c] = << >> ]
                     /\ queryEmbedding' =
                          [ queryEmbedding EXCEPT ![c] = Unset ]
                ELSE /\ scored' = [ scored EXCEPT ![c] = slots ]
                     /\ vec' =
                          IF e.ok
                            THEN [ vec EXCEPT
                                     ![c] = [ j \in DOMAIN @ \cup { i } |->
                                                IF j = i THEN e.vec ELSE @[j] ] ]
                            ELSE vec
                     /\ UNCHANGED queryEmbedding
                     /\ IF promiseAll(slots) = "fulfilled"
                          THEN \E fin \in { returnRanked(promiseValues(slots),
                                                         topK[c]) } :
                                 Finish(c, fin)
                          ELSE UNCHANGED << pc, path, outcome, result, context >>
      /\ UNCHANGED << surahs, surahIdx, verses, query, topK, issued >>

Next ==
  \/ \E c \in Calls, qy \in Queries, k \in TopKs : Call(c, qy, k)
  \/ \E c \in Calls : Fanout(c)
  \/ \E r \in inflight, resp \in Responses : QueryResponse(r, resp)
  \/ \E r \in inflight, resp \in Responses : PoolResponse(r, resp)

Spec == Init /\ [][Next]_vars

\* a step of a call that has been made: a continuation that is ready, or
\* the provider's answer to a request in flight
Progress ==
  \/ \E c \in Calls : Fanout(c)
  \/ \E r \in inflight, resp \in Responses : QueryResponse(r, resp)
  \/ \E r \in inflight, resp \in Responses : PoolResponse(r, resp)

\* the provider answers every request, and a continuation that is ready
\* runs.  No step disables another call's step, so this is no more than
\* fairness for every single request.
Fairness == WF_vars(Progress)

\* the calls of the fair specification all pass the same topK: topK only
\* reaches the final slice and decides no step
FairNext ==
  \/ \E c \in Calls, qy \in Queries : Call(c, qy, MaxTopK)
  \/ Progress

FairSpec == Init /\ [][FairNext]_vars /\ Fairness

(***************************************************************************)
(* Building the index, for any dataset: the loop at module load.           *)
(***************************************************************************)
\* the surahs of a dataset: numbers may repeat, content may be absent
SurahNumbers == 1..MaxSurahNumber

Contents == { << >>, << << "a" >> >>, << << "a" >>, << "b" >> >> }

SurahRecords ==
  [ number : SurahNumbers, name : { "A" } ]
    \cup [ number : SurahNumbers, name : { "A" }, content : Contents ]

RECURSIVE SeqsUpTo(_, _)
SeqsUpTo(S, n) ==
  IF n = 0 THEN { << >> }
  ELSE LET shorter == SeqsUpTo(S, n - 1)
       IN  shorter \cup { Append(t, x) : t \in shorter, x \in S }

Datasets == SeqsUpTo(SurahRecords, MaxSurahs)

\* the module is loaded with some dataset: const verses: Verse[] = []
IndexInit ==
  /\ surahs \in Datasets
  /\ surahIdx = 0
  /\ verses = << >>
  /\ embeddingCache = << >>
  /\ pc = [ c \in Calls |-> "idle" ]
  /\ query = [ c \in Calls |-> Unset ]
  /\ topK = [ c \in Calls |-> 0 ]
  /\ path = [ c \in Calls |-> "NONE" ]
  /\ queryEmbedding = [ c \in Calls |-> Unset ]
  /\ scored = [ c \in Calls |-> << >> ]
  /\ outcome = [ c \in Calls |-> None ]
  /\ result = [ c \in Calls |-> Unset ]
  /\ context = [ c \in Calls |-> Unset ]
  /\ inflight = { }
  /\ issued = { }
  /\ vec = [ c \in Calls |-> << >> ]
  /\ httpFailed = [ c \in Calls |-> FALSE ]
  /\ providerFailed = [ c \in Calls |-> FALSE ]
  /\ stored = { }

\* one turn of for (const surah of surahs): the verses of the next surah
\* are pushed
LoadSurah ==
  /\ surahIdx < Len(surahs)
  /\ surahIdx' = surahIdx + 1
  /\ verses' = verses \o surahVerses(surahs[surahIdx + 1])
  /\ UNCHANGED << surahs, embeddingCache, pc, query, topK, path,
                  queryEmbedding, scored, outcome, result, context,
                  inflight, issued, vec, httpFailed, providerFailed,
                  stored >>

IndexSpec == IndexInit /\ [][LoadSurah]_vars

(***************************************************************************)
(* Properties.                                                             *)
(***************************************************************************)
Done(c) == pc[c] = "done"

\* a query of whitespace only
IsBlank(s) == \A i \in 1..Len(s) : s[i] \in Whitespace

\* the corpus records a query matches, by position
Matches(text, q) ==
  \/ includes(text, q)
  \/ includes(toLowerCase(text), toLowerCase(q))

MatchIdx(q) == { i \in 1..Len(verses) : Matches(verses[i].text, q) }

\* the n-th matching position, in corpus order
NthMatch(q, n) ==
  CHOOSE i \in MatchIdx(q) :
    Cardinality({ j \in MatchIdx(q) : j < i }) = n - 1

\* the first n matching records, each with the flat score 0.9
FirstMatches(q, n) ==
  [ j \in 1..n |-> [ verse |-> verses[NthMatch(q, j)], score |-> << 9, 10 >> ] ]

\* C1: whatever the provider does (a non-success status, a response without
\* a vector, a transport or parsing failure, for the query or for a pool
\* record), a call of semanticSearch that completes returns a sequence of
\* results, each a corpus record with a score; it never throws.
C1_AlwaysReturnsResults ==
  \A c \in Calls :
    /\ outcome[c] # "threw"
    /\ Done(c) =>
         /\ outcome[c] = "returned"
         /\ DOMAIN result[c] = 1..Len(result[c])
         /\ \A i \in 1..Len(result[c]) :
              /\ DOMAIN result[c][i] = { "verse", "score" }
              /\ \E j \in 1..Len(verses) : result[c][i].verse = verses[j]

\* a call that returned through the catch block after a request for a pool
\* record met a non-success status
C1_Witness ==
  \E c \in Calls :
    /\ Done(c) /\ outcome[c] = "returned" /\ path[c] = "FALLBACK"
    /\ httpFailed[c]
    /\ \E r \in issued : r.call = c /\ r.slot # 0
    /\ Len(result[c]) > 0

\* C2: when a request of a call met a non-success HTTP status, the call's
\* result is the keyword search over the whole corpus, every entry scored
\* exactly 0.9, and no entry carries a similarity score.
C2_StatusFailureGivesFallback ==
  \A c \in Calls :
    (Done(c) /\ httpFailed[c]) =>
      LET q == trim(query[c])
          n == sliceIndex(topK[c], Cardinality(MatchIdx(q)))
      IN  /\ path[c] = "FALLBACK"
          /\ result[c] = FirstMatches(q, n)
          /\ \A i \in 1..Len(result[c]) : result[c][i].score = << 9, 10 >>

\* a call whose pool requests partly succeeded before one met a non-success
\* status, and whose result holds a record beyond the pool
C2_Witness ==
  \E c \in Calls :
    /\ Done(c) /\ httpFailed[c]
    /\ \E r \in issued : r.call = c /\ r.slot # 0 /\ r \notin inflight
    /\ cacheKey(verses[1].text) \in DOMAIN embeddingCache
    /\ \E i \in 1..Len(result[c]) :
         \E j \in (MAX_VERSES_TO_EMBED + 1)..Len(verses) :
           result[c][i].verse = verses[j]

\* C3: a call whose query is empty or whitespace only returns the empty
\* sequence at once, sends no request and leaves the embedding cache as it
\* is; no request is ever sent on behalf of such a call.
C3_BlankQueryStep ==
  \A c \in Calls :
    (pc[c] = "idle" /\ pc'[c] # "idle" /\ IsBlank(query'[c])) =>
      /\ pc'[c] = "done"
      /\ outcome'[c] = "returned"
      /\ result'[c] = << >>
      /\ issued' = issued
      /\ inflight' = inflight
      /\ embeddingCache' = embeddingCache

C3_BlankQueryIsNoOp ==
  /\ [][C3_BlankQueryStep]_vars
  /\ [](\A r \in issued : ~IsBlank(query[r.call]))

\* a whitespace-only call and an empty call have both returned while the
\* cache holds entries of an earlier call
C3_Witness ==
  /\ embeddingCache # << >>
  /\ \E c \in Calls :
       Done(c) /\ query[c] = << " " >> /\ result[c] = << >>

\* the positions of the pool in the corpus
PoolIdx == 1..Min(MAX_VERSES_TO_EMBED, Len(verses))

SemanticDone(c) == Done(c) /\ path[c] = "SEMANTIC"

\* C4 as stated: over all embed calls, of whatever interleaving and whatever
\* the outcome of the first, at most one request is sent per cache key.
C4_AtMostOneRequestPerKey ==
  \A r1, r2 \in issued :
    cacheKey(r1.text) = cacheKey(r2.text) => r1 = r2

\* C4, amended: an embed call that starts when the cache holds its key sends
\* no request and returns the cached vector; a request is only ever sent for
\* a key the cache does not hold.
C4_CachedStep ==
  /\ \A r \in issued' \ issued : cacheKey(r.text) \notin DOMAIN embeddingCache
  /\ \A c \in Calls :
       /\ ( /\ pc[c] = "idle" /\ pc'[c] # "idle"
            /\ ~IsBlank(query'[c])
            /\ cacheKey(trim(query'[c])) \in DOMAIN embeddingCache )
          => /\ queryEmbedding'[c] = embeddingCache[cacheKey(trim(query'[c]))]
             /\ inflight' = inflight
       /\ (pc[c] = "fanout" /\ pc'[c] # "fanout")
          => \A i \in PoolIdx :
               cacheKey(verses[i].text) \in DOMAIN embeddingCache
               => /\ i \in DOMAIN vec'[c]
                  /\ vec'[c][i] = embeddingCache[cacheKey(verses[i].text)]
                  /\ \A r \in inflight' : ~(r.call = c /\ r.slot = i)

C4_CachedKeyNeedsNoRequest == [][C4_CachedStep]_vars

\* a call whose query and a pool record are different texts with the same
\* key: the record got the cached vector and no request was sent for it
C4_Witness ==
  \E c \in Calls :
    /\ SemanticDone(c)
    /\ Request(c, 0, trim(query[c])) \in issued
    /\ \E i \in DOMAIN vec[c] :
         /\ verses[i].text # trim(query[c])
         /\ cacheKey(verses[i].text) = cacheKey(trim(query[c]))
         /\ \A r \in issued : ~(r.call = c /\ r.slot = i)

\* C5: on a corpus larger than the pool limit, requests are sent only for
\* the query and for records among the first MAX_VERSES_TO_EMBED, and every
\* record of a semantic result is one of those.
C5_PoolLimiting ==
  Len(verses) > MAX_VERSES_TO_EMBED =>
    /\ \A r \in issued :
         \/ r.slot = 0 /\ r.text = trim(query[r.call])
         \/ r.slot \in 1..MAX_VERSES_TO_EMBED /\ r.text = verses[r.slot].text
    /\ \A c \in Calls :
         SemanticDone(c) =>
           \A i \in 1..Len(result[c]) :
             \E j \in 1..MAX_VERSES_TO_EMBED : result[c][i].verse = verses[j]

\* a semantic result that holds the whole pool, of a corpus that is larger,
\* after requests for every pool record
C5_Witness ==
  \E c \in Calls :
    /\ SemanticDone(c)
    /\ Len(verses) > MAX_VERSES_TO_EMBED
    /\ Len(result[c]) = MAX_VERSES_TO_EMBED
    /\ \A i \in 1..MAX_VERSES_TO_EMBED : \E r \in issued : r.call = c /\ r.slot = i

\* the ranking that the vectors of a call determine: the pool in corpus order,
\* each record scored with the vector embed gave for it
RankingOf(c) ==
  LET entries ==
        [ i \in PoolIdx |->
            [ verse |-> verses[i],
              score |-> cosineSimilarity(queryEmbedding[c], vec[c][i]) ] ]
  IN  slice(sort(entries), 0, topK[c])

\* C6: when all requests of a call succeed, its result is a function of the
\* vectors alone, whatever the order in which the pool requests completed:
\* every score is the similarity of the query's vector with the vector
\* obtained for that very record.
C6_ResultIndependentOfCompletionOrder ==
  \A c \in Calls :
    SemanticDone(c) =>
      /\ DOMAIN vec[c] = PoolIdx
      /\ result[c] = RankingOf(c)

\* a call that sent a request for every pool record and ranked the second
\* record first
C6_Witness ==
  \E c \in Calls :
    /\ SemanticDone(c)
    /\ \A i \in PoolIdx : \E r \in issued : r.call = c /\ r.slot = i
    /\ Len(result[c]) >= 2
    /\ result[c][1].verse = verses[2]
    /\ CmpNum(result[c][1].score, result[c][2].score) > 0

\* C7: a semantic result for topK >= 0 has min(topK, |pool|) entries, in
\* non-increasing order of score, of pairwise distinct pool records, and no
\* pool record outside it scores strictly higher than one inside.
C7_TopKRanking ==
  \A c \in Calls :
    (SemanticDone(c) /\ topK[c] >= 0) =>
      LET res == result[c]
          scoreOf(i) == cosineSimilarity(queryEmbedding[c], vec[c][i])
          inResult(i) == \E a \in 1..Len(res) : res[a].verse = verses[i]
      IN  /\ Len(res) = Min(topK[c], Cardinality(PoolIdx))
          /\ \A a, b \in 1..Len(res) :
               a < b => /\ CmpNum(res[a].score, res[b].score) >= 0
                        /\ res[a].verse # res[b].verse
          /\ \A a \in 1..Len(res) :
               \E i \in PoolIdx :
                 res[a].verse = verses[i] /\ res[a].score = scoreOf(i)
          /\ \A i \in PoolIdx :
               ~inResult(i) =>
                 \A a \in 1..Len(res) : CmpNum(scoreOf(i), res[a].score) <= 0

\* a result cut to one entry, which is the second pool record because the
\* first scores strictly lower
C7_Witness ==
  \E c \in Calls :
    /\ SemanticDone(c)
    /\ topK[c] = 1
    /\ Len(result[c]) = 1
    /\ result[c][1].verse = verses[2]
    /\ CmpNum(cosineSimilarity(queryEmbedding[c], vec[c][1]),
              result[c][1].score) < 0

FallbackDone(c) == Done(c) /\ path[c] = "FALLBACK"

\* C8 as stated, for topK >= 0: the fallback result is the first topK corpus
\* records that match the original query, each scored 0.9.
C8_FallbackMatchesOriginalQuery ==
  \A c \in Calls :
    (FallbackDone(c) /\ topK[c] >= 0) =>
      result[c] =
        FirstMatches(query[c],
                     Min(topK[c], Cardinality(MatchIdx(query[c]))))

\* C8, amended: the fallback matches the trimmed query: for topK >= 0 its
\* result is the first topK records of the whole corpus, in corpus order,
\* whose text contains the trimmed query or whose lowercased text contains
\* the lowercased trimmed query, each scored 0.9.
C8_FallbackMatchesTrimmedQuery ==
  \A c \in Calls :
    (FallbackDone(c) /\ topK[c] >= 0) =>
      LET q == trimEnd(trimStart(query[c]))
      IN  result[c] = FirstMatches(q, Min(topK[c], Cardinality(MatchIdx(q))))

\* a fallback result, for a query with whitespace around it, that holds a
\* record beyond the pool which matches only in lower case
C8_Witness ==
  \E c \in Calls :
    /\ FallbackDone(c) /\ topK[c] >= 0
    /\ query[c] # trim(query[c])
    /\ \E i \in 1..Len(result[c]) :
         \E j \in (MAX_VERSES_TO_EMBED + 1)..Len(verses) :
           /\ result[c][i].verse = verses[j]
           /\ ~includes(verses[j].text, trim(query[c]))

\* a call that has been made and has not returned
Active(c) == pc[c] \in { "awaitQuery", "fanout", "awaitPool" }

RequestInFlight(c, i) == \E r \in inflight : r.call = c /\ r.slot = i

\* a call that is suspended waits for the provider, and none of the requests
\* it waits for has failed
SuspendedOnlyOnProvider ==
  \A c \in Calls :
    /\ pc[c] = "awaitQuery" => RequestInFlight(c, 0)
    /\ pc[c] = "awaitPool" =>
         /\ \E i \in DOMAIN scored[c] : scored[c][i].st = "pending"
         /\ \A i \in DOMAIN scored[c] :
              /\ scored[c][i].st # "rejected"
              /\ scored[c][i].st = "pending" => RequestInFlight(c, i)

\* C9: when the provider answers every request, every call returns; until
\* then it is suspended only on requests that are in flight, and it has
\* returned as soon as all of them are answered or one of them has failed.
C9_EveryCallReturns ==
  /\ \A c \in Calls : Active(c) ~> Done(c)
  /\ []SuspendedOnlyOnProvider

\* a call that has returned after waiting for the query and for every pool
\* record
C9_Witness ==
  \E c \in Calls :
    /\ SemanticDone(c)
    /\ \A i \in { 0 } \cup PoolIdx : \E r \in issued : r.call = c /\ r.slot = i

\* C10: getContextForQuery returns the records of the results of its
\* semanticSearch call, in the same order, nothing added or dropped, and
\* never an error.
C10_ContextIsProjection ==
  \A c \in Calls :
    Done(c) =>
      /\ outcome[c] = "returned"
      /\ DOMAIN context[c] = 1..Len(result[c])
      /\ \A i \in 1..Len(result[c]) : context[c][i] = result[c][i].verse

\* contexts of two different records, one from the semantic path and one
\* from the fallback
C10_Witness ==
  \E c, d \in Calls :
    /\ SemanticDone(c) /\ Len(context[c]) >= 2
    /\ context[c][1] # context[c][2]
    /\ FallbackDone(d) /\ Len(context[d]) >= 2

\* the loop that builds the index has read the whole dataset
IndexBuilt == surahIdx = Len(surahs)

\* the lines of the g-th surah of the dataset, none when it has no content
contentOf(g) ==
  IF "content" \in DOMAIN surahs[g] THEN surahs[g].content ELSE << >>

\* the number of lines of the surahs in front of the g-th
linesBefore(g) ==
  sumTo([ h \in 1..Len(surahs) |-> Len(contentOf(h)) ], g - 1)

C11_CountAndOrder ==
  /\ Len(verses) = linesBefore(Len(surahs) + 1)
  /\ \A g \in 1..Len(surahs) :
       \A n \in 1..Len(contentOf(g)) :
         LET v == verses[linesBefore(g) + n]
         IN  /\ v.text = contentOf(g)[n]
             /\ v.surahNumber = surahs[g].number
             /\ v.surahName = surahs[g].name
             /\ v.ayahNumber = n
             /\ v.ayahId =
                  toString(surahs[g].number) \o << ":" >> \o toString(n)

C11_DistinctIds ==
  \A i, j \in 1..Len(verses) : i # j => verses[i].ayahId # verses[j].ayahId

\* C11: for any dataset, surahs without content and surahs with equal
\* numbers included, the index that was built has as many records as the
\* surahs have lines, in the order of the surahs and of the lines within a
\* surah, and the ids "<number>:<line>" of the records are pairwise distinct.
C11_IndexCountOrderAndDistinctIds ==
  IndexBuilt => C11_CountAndOrder /\ C11_DistinctIds

\* a step keeps every entry of the cache as it is
CacheEntriesKept ==
  \A k \in DOMAIN embeddingCache :
    k \in DOMAIN embeddingCache' /\ embeddingCache'[k] = embeddingCache[k]

\* C12 as stated: in every interleaving of embed calls, a key that has been
\* set is never overwritten and never removed.
C12_NeverOverwritten == [][CacheEntriesKept]_vars

\* C12, amended: a key maps to one vector and, once set, is never removed;
\* its vector is replaced only by the successful response to a request for
\* the same key that was in flight, which was sent before the key was set.
C12_CacheStep ==
  /\ \A k \in DOMAIN embeddingCache :
       /\ k \in DOMAIN embeddingCache'
       /\ embeddingCache'[k] # embeddingCache[k] =>
            \E r \in inflight \ inflight' :
              /\ cacheKey(r.text) = k
              /\ embeddingCache'[k] \in Vectors
  /\ \A r \in issued' \ issued : cacheKey(r.text) \notin DOMAIN embeddingCache

C12_OverwrittenOnlyByOverlappingRequest == [][C12_CacheStep]_vars

\* two calls asked for the same key at the same time and both were answered,
\* and the cache holds that key and another
C12_Witness ==
  \E r1, r2 \in issued \ inflight :
    /\ r1 # r2
    /\ r1.slot = 0 /\ r2.slot = 0
    /\ cacheKey(r1.text) = cacheKey(r2.text)
    /\ cacheKey(r1.text) \in DOMAIN embeddingCache
    /\ Cardinality(DOMAIN embeddingCache) >= 2
    /\ ~httpFailed[r1.call] /\ ~httpFailed[r2.call]

\* a call whose trimmed query is not empty starts
Starts(c) == pc[c] = "idle" /\ pc'[c] # "idle" /\ ~IsBlank(query'[c])

C13_PathStep ==
  \A c \in Calls :
    /\ Starts(c) => path'[c] = "SEMANTIC"
    /\ path[c] = "NONE" /\ path'[c] # "NONE" => Starts(c)
    /\ path[c] = "SEMANTIC" /\ path'[c] # "SEMANTIC" =>
         /\ path'[c] = "FALLBACK"
         /\ ~providerFailed[c] /\ providerFailed'[c]
    /\ path[c] = "FALLBACK" => path'[c] = "FALLBACK"

C13_PathInv ==
  \A c \in Calls :
    /\ path[c] = "FALLBACK" => providerFailed[c]
    /\ (Done(c) /\ ~IsBlank(query[c]) /\ ~providerFailed[c]) =>
         /\ path[c] = "SEMANTIC"
         /\ result[c] = RankingOf(c)

\* C13: a call with a non-empty trimmed query starts in SEMANTIC and makes
\* at most one transition, SEMANTIC -> FALLBACK, in a step in which one of
\* its requests fails; it never leaves FALLBACK, and a call all of whose
\* requests were answered by a vector returns the semantic ranking.
C13_OneWayFallback == [][C13_PathStep]_vars /\ []C13_PathInv

\* after a call that fell back, a later call started in SEMANTIC, sent
\* requests and returned a semantic ranking
C13_Witness ==
  \E c, d \in Calls :
    /\ FallbackDone(c)
    /\ SemanticDone(d) /\ ~providerFailed[d]
    /\ \E r \in issued : r.call = d
    /\ Len(result[d]) >= 1

\* the keys that requests of calls that have fallen back have written
KeysOfFallenBack ==
  { cacheKey(s.req.text) : s \in { t \in stored : path[t.req.call] = "FALLBACK" } }

C14_NoRollbackStep ==
  /\ \A c \in Calls :
       \* the step to the catch block leaves the whole cache as it is
       /\ path[c] = "SEMANTIC" /\ path'[c] = "FALLBACK" =>
            embeddingCache' = embeddingCache
       \* a later call whose query has such a key takes the cached vector
       /\ (Starts(c) /\ cacheKey(trim(query'[c])) \in KeysOfFallenBack) =>
            /\ queryEmbedding'[c] = embeddingCache[cacheKey(trim(query'[c]))]
            /\ issued' = issued
       \* and so does its fan-out for a pool record with such a key
       /\ (pc[c] = "fanout" /\ pc'[c] # "fanout") =>
            \A i \in PoolIdx :
              cacheKey(verses[i].text) \in KeysOfFallenBack =>
                /\ i \in DOMAIN vec'[c]
                /\ vec'[c][i] = embeddingCache[cacheKey(verses[i].text)]
  /\ \A r \in issued' \ issued : cacheKey(r.text) \notin KeysOfFallenBack

\* C14: the cache is not rolled back when a call falls back: the step to
\* the fallback changes no entry, every key a successful request has written
\* stays in the cache, and a later call that needs a key written by a call
\* that fell back takes the cached vector and sends no request for it.
C14_NoRollback ==
  /\ [][C14_NoRollbackStep]_vars
  /\ [](\A s \in stored : cacheKey(s.req.text) \in DOMAIN embeddingCache)

\* a call fell back after the request for its first pool record had
\* succeeded, and another call took that record's vector from the cache,
\* without a request, and returned a semantic ranking
C14_Witness ==
  \E c, d \in Calls :
    /\ FallbackDone(c)
    /\ \E s \in stored : s.req.call = c /\ s.req.slot = 1
    /\ \A s \in stored : s.req.slot = 1 => s.req.call = c
    /\ SemanticDone(d)
    /\ 1 \in DOMAIN vec[d]
    /\ \A r \in issued : ~(r.call = d /\ r.slot = 1)

\* C15: the index is read-only once it is built: no step of a call, on the
\* semantic path with its sort and truncation or on the fallback path,
\* changes the number, the order or the content of the records; the index
\* is always the one built from the dataset.
C15_IndexReadOnly ==
  /\ [][verses' = verses]_vars
  /\ [](verses = buildVerses(surahs))

\* a semantic result that was sorted into another order than the index's
\* and truncated, and a fallback result
C15_Witness ==
  \E c, d \in Calls :
    /\ SemanticDone(c) /\ topK[c] = 1 /\ Len(result[c]) = 1
    /\ result[c][1].verse = verses[2]
    /\ FallbackDone(d) /\ Len(result[d]) >= 1
    /\ Len(verses) = 4

IsZeroVector(v) == \A i \in 1..Len(v) : v[i] = 0

\* the vector is of another dimension than the query's, or all zeros
Neutral(c, v) == Len(v) # Len(queryEmbedding[c]) \/ IsZeroVector(v)

\* C16: a vector of another dimension than the query's, or a zero vector,
\* that the provider returns for a pool record is no error: the record's
\* promise is fulfilled with score 0, the call stays on the semantic path,
\* and the record is in the ranking with score 0.
C16_MismatchScoresZero ==
  \A c \in Calls :
    /\ \A s \in stored :
         (s.req.call = c /\ s.req.slot # 0 /\ pc[c] = "awaitPool"
            /\ Neutral(c, s.vec)) =>
           /\ path[c] = "SEMANTIC"
           /\ scored[c][s.req.slot] =
                [ st |-> "fulfilled",
                  value |-> [ verse |-> verses[s.req.slot], score |-> << 0, 1 >> ] ]
    /\ (Done(c) /\ ~IsBlank(query[c]) /\ ~providerFailed[c]) =>
         /\ path[c] = "SEMANTIC"
         /\ \A i \in PoolIdx :
              Neutral(c, vec[c][i]) =>
                /\ \A a \in 1..Len(result[c]) :
                     result[c][a].verse = verses[i] =>
                       result[c][a].score = << 0, 1 >>
                /\ topK[c] >= Cardinality(PoolIdx) =>
                     \E a \in 1..Len(result[c]) : result[c][a].verse = verses[i]

\* a semantic result that holds one record whose vector the provider
\* returned with another dimension than the query's and one whose vector it
\* returned as zeros, both with score 0
C16_Witness ==
  \E c \in Calls :
    /\ SemanticDone(c) /\ Len(result[c]) = 2
    /\ \E s, t \in stored :
         /\ s.req.call = c /\ s.req.slot = 1
         /\ Len(s.vec) # Len(queryEmbedding[c]) /\ ~IsZeroVector(s.vec)
         /\ vec[c][1] = s.vec
         /\ t.req.call = c /\ t.req.slot = 2
         /\ Len(t.vec) = Len(queryEmbedding[c]) /\ IsZeroVector(t.vec)
         /\ vec[c][2] = t.vec
    /\ ~IsZeroVector(queryEmbedding[c])
    /\ result[c][1].score = << 0, 1 >> /\ result[c][2].score = << 0, 1 >>

\* the request of a call for its query
QueryRequests(c) == { r \in issued : r.call = c /\ r.slot = 0 }

\* the requests of a call for pool records
PoolRequests(c) == { r \in issued : r.call = c /\ r.slot # 0 }

\* the provider has answered the call's request for the query, and not by
\* a vector
QueryFailed(c) ==
  \E r \in QueryRequests(c) \ inflight : \A s \in stored : s.req # r

C17_OrderStep ==
  \A r \in issued' \ issued :
    r.slot # 0 =>
      /\ pc[r.call] = "fanout"
      /\ ~providerFailed[r.call]
      /\ \A q \in QueryRequests(r.call) :
           \E s \in stored : s.req = q /\ s.vec = queryEmbedding[r.call]
      /\ QueryRequests(r.call) = { } =>
           cacheKey(trim(query[r.call])) \in DOMAIN embeddingCache

C17_OrderInv ==
  \A c \in Calls :
    /\ RequestInFlight(c, 0) => PoolRequests(c) = { }
    /\ QueryFailed(c) => FallbackDone(c) /\ PoolRequests(c) = { }

\* C17: a call sends no request for a pool record before it has the vector
\* of its query, from the cache or from a successful answer; when the
\* request for the query fails, the call sends no request for a pool record
\* at all and has returned through the fallback.
C17_QueryEmbeddingFirst == [][C17_OrderStep]_vars /\ []C17_OrderInv

\* one call fell back on its failed query request, without a pool request,
\* and another sent its pool requests after its query request had succeeded
C17_Witness ==
  \E c, d \in Calls :
    /\ QueryFailed(c) /\ FallbackDone(c) /\ PoolRequests(c) = { }
    /\ \E s \in stored : s.req \in QueryRequests(d)
    /\ Cardinality(PoolRequests(d)) = Cardinality(PoolIdx)

\* k is the first CacheKeyLen characters of the text, or all of a shorter one
IsKeyOf(k, text) ==
  /\ Len(k) = Min(Len(text), CacheKeyLen)
  /\ \A i \in 1..Len(k) : k[i] = text[i]

\* the requests the provider has answered, and not by a vector
FailedRequests == { r \in issued \ inflight : \A s \in stored : s.req # r }

C18_ProvenanceInv ==
  \A k \in DOMAIN embeddingCache :
    \E s \in stored : IsKeyOf(k, s.req.text) /\ s.vec = embeddingCache[k]

\* a step in which the provider answers a request otherwise than by a vector
\* leaves the cache as it is
C18_FailureStep ==
  (\E r \in inflight \ inflight' : r \in FailedRequests') =>
    embeddingCache' = embeddingCache

\* C18: every entry of the cache holds a vector that the provider returned
\* in a successful answer to a request for a text of which the entry's key
\* is the first CacheKeyLen characters; an answer that is not a vector adds
\* and changes no entry, also when it comes after its call has returned
\* through the fallback.
C18_CacheProvenance == []C18_ProvenanceInv /\ [][C18_FailureStep]_vars

\* a call that fell back on the failure of one pool request got the failure
\* of the other afterwards, and the cache holds no entry for that record;
\* it holds the vector of a text that is longer than its key
C18_Witness ==
  /\ \E c \in Calls :
       /\ FallbackDone(c)
       /\ \E r1, r2 \in PoolRequests(c) \cap FailedRequests :
            r1 # r2 /\ cacheKey(r2.text) \notin DOMAIN embeddingCache
  /\ \E s \in stored :
       /\ Len(s.req.text) > CacheKeyLen
       /\ embeddingCache[cacheKey(s.req.text)] = s.vec

\* the cache holds the key of every pool record
PoolCached ==
  \A i \in PoolIdx : cacheKey(verses[i].text) \in DOMAIN embeddingCache

\* the cache holds the key of the trimmed query and of every pool record
FullyCached(qy) ==
  cacheKey(trim(qy)) \in DOMAIN embeddingCache /\ PoolCached

\* the ranking of the pool by the vectors the cache holds
RankingFromCache(c) ==
  LET entries ==
        [ i \in PoolIdx |->
            [ verse |-> verses[i],
              score |->
                cosineSimilarity(queryEmbedding[c],
                                 embeddingCache[cacheKey(verses[i].text)]) ] ]
  IN  slice(sort(entries), 0, topK[c])

C19_CachedStep ==
  /\ \A qy \in Queries : (~IsBlank(qy) /\ FullyCached(qy)) => FullyCached(qy)'
  /\ \A c \in Calls :
       \* the call starts: the query's vector is the cached one
       /\ (Starts(c) /\ FullyCached(query'[c])) =>
            /\ pc'[c] = "fanout" /\ path'[c] = "SEMANTIC"
            /\ queryEmbedding'[c] = embeddingCache[cacheKey(trim(query'[c]))]
            /\ issued' = issued
       \* until its fan-out runs, nothing that happens touches the call
       /\ (pc[c] = "fanout" /\ pc'[c] = "fanout") =>
            /\ path'[c] = path[c]
            /\ queryEmbedding'[c] = queryEmbedding[c]
       \* the fan-out finds every record and the call returns the ranking
       /\ (pc[c] = "fanout" /\ pc'[c] # "fanout" /\ PoolCached) =>
            /\ pc'[c] = "done" /\ path'[c] = "SEMANTIC"
            /\ outcome'[c] = "returned"
            /\ result'[c] = RankingFromCache(c)
            /\ issued' = issued

\* a call that has returned without a single request has not fallen back
C19_NoRequestNoFallback ==
  \A c \in Calls :
    (Done(c) /\ ~IsBlank(query[c])
       /\ QueryRequests(c) = { } /\ PoolRequests(c) = { }) =>
      /\ SemanticDone(c)
      /\ ~providerFailed[c]

\* C19: a call that starts when the cache holds the key of its trimmed query
\* and of every pool record sends no request, cannot go to the fallback
\* whatever the provider answers to others, and returns the ranking computed
\* from the cached vectors.
C19_FullyCachedCall == [][C19_CachedStep]_vars /\ []C19_NoRequestNoFallback

\* a call whose query is longer than its key returned a semantic ranking
\* of the whole pool without a single request, from what another call had
\* left in the cache
C19_Witness ==
  \E d \in Calls :
    /\ SemanticDone(d)
    /\ QueryRequests(d) = { } /\ PoolRequests(d) = { }
    /\ Len(trim(query[d])) > CacheKeyLen
    /\ Len(result[d]) = Cardinality(PoolIdx)
    /\ result[d] = RankingFromCache(d)

====
